---------------------------- MODULE Spec2Model ----------------------------
(***************************************************************************)
(* Model of the two detection pipelines of mobile-mcp's cv package:        *)
(*   src/src/cv/template_matcher.py   TemplateMatcher.find_matches          *)
(*   src/src/cv/ui_detector.py        UIDetector.detect_ui_elements         *)
(*                                                                         *)
(* Units.  Scores, thresholds and confidences of the template matcher are  *)
(* integers counting 1/10000 (0.7004 is 7004); a scale factor is an        *)
(* integer counting 1/100 (1.25 is 125).  Boxes are in pixels.  The        *)
(* detector's max_area is kept in half pixels, because the code computes   *)
(* it as img_area * 0.5.                                                   *)
(*                                                                         *)
(* OpenCV itself (imdecode, imread, matchTemplate, findContours, ...) is   *)
(* the environment: what it returns is drawn from bounded sets, and what   *)
(* the repository's code does with it is translated line by line.          *)
(***************************************************************************)
EXTENDS Integers, Sequences, FiniteSets, TLC

VARIABLES
    \* ---- TemplateMatcher ----
    threshold,        \* self.threshold
    method,           \* self.method
    screenshot_data,  \* argument of find_matches
    template_data,    \* argument of find_matches
    multi_scale,      \* argument of find_matches
    screenshot,       \* local of find_matches: loaded raster or None
    template,         \* local of find_matches: loaded raster or None
    scale_i,          \* position of the loop over scales (1-based)
    results,          \* what cv2.matchTemplate returned at each scale so far
    matches,          \* local of find_matches
    tm_pc,            \* position inside find_matches
    tm_returned,      \* value returned by find_matches
    \* ---- UIDetector ----
    min_area,         \* self.min_area
    max_area,         \* self.max_area (half pixels), or None
    ctor_max_area,    \* the max_area argument given to __init__
    image_data,       \* argument of detect_ui_elements
    img,              \* local of detect_ui_elements
    edge_elements,    \* local: elements from edge detection
    color_elements,   \* local: elements from colour detection
    elements,         \* local of detect_ui_elements
    ui_pc,            \* position inside detect_ui_elements
    ui_returned       \* value returned by detect_ui_elements

tmVars == <<threshold, method, screenshot_data, template_data, multi_scale,
            screenshot, template, scale_i, results, matches, tm_pc, tm_returned>>
uiVars == <<min_area, max_area, ctor_max_area, image_data, img, edge_elements,
            color_elements, elements, ui_pc, ui_returned>>
vars == <<tmVars, uiVars>>

----------------------------------------------------------------------------
(* Python values *)

\* Python's None, for a raster (an <<height, width>> pair otherwise)
None == <<>>

\* an exception that leaves a function instead of a value
Raised == <<"exception">>

Min(a, b) == IF a <= b THEN a ELSE b
Max(a, b) == IF a >= b THEN a ELSE b

----------------------------------------------------------------------------
(* Image loading: TemplateMatcher._load_image, UIDetector._load_image *)

\* What the two OpenCV reads can do with one input string.
\*   decode: base64.b64decode + cv2.imdecode on the string as a payload
\*   path:   cv2.imread on the string as a path
\* "raster": yields an image; "none": completes, yields None; "raise": raises.
Outcomes == {"raster", "none", "raise"}

\* faulty variant of LoadImage: the inner try has no except, so a path read that
\* raises leaves the loader
LoadImageInnerUncaught(data) ==
    IF data.decode = "raise"
    THEN IF data.path = "raster" THEN data.shape
         ELSE IF data.path = "none" THEN None ELSE Raised
    ELSE IF data.decode = "raster" THEN data.shape ELSE None

\* try: decode the payload and return what imdecode gives; except: try:
\* return what imread gives; except: return None.  Both excepts are bare, so
\* nothing leaves the loader
LoadImage(data) ==
    IF data.decode = "raise"
    THEN \* except: try file path
         IF data.path = "raster" THEN data.shape ELSE None
    ELSE \* return img (whatever imdecode gave)
         IF data.decode = "raster" THEN data.shape ELSE None

----------------------------------------------------------------------------
(* TemplateMatcher: constants of the code *)

\* self.method_map: the three scoring methods
Methods == {"ccoeff_normed", "ccorr_normed", "sqdiff_normed"}

\* scales = [0.5, 0.75, 1.0, 1.25, 1.5], in hundredths
Scales == <<50, 75, 100, 125, 150>>

\* the scales find_matches walks through: all of them, or 1.0 alone
ScalesFor(ms) == IF ms THEN Scales ELSE <<100>>

\* 1.0 on the score axis
One == 10000

\* overlap_threshold = 0.3 of _non_max_suppression, as the fraction 3/10
OverlapNum == 3
OverlapDen == 10

----------------------------------------------------------------------------
(* TemplateMatcher._match_at_scale *)

\* new_w = int(template_w * scale), new_h = int(template_h * scale)
NewW(tmpl, scale) == (tmpl[2] * scale) \div 100
NewH(tmpl, scale) == (tmpl[1] * scale) \div 100

\* the two early returns of _match_at_scale
Skipped(shot, tmpl, scale) ==
    \/ NewW(tmpl, scale) <= 0
    \/ NewH(tmpl, scale) <= 0
    \/ NewW(tmpl, scale) > shot[2]
    \/ NewH(tmpl, scale) > shot[1]

\* shape of cv2.matchTemplate's result: (H - h + 1) rows of (W - w + 1) scores
ResultCols(shot, tmpl, scale) == shot[2] - NewW(tmpl, scale) + 1
ResultRows(shot, tmpl, scale) == shot[1] - NewH(tmpl, scale) + 1

\* A score or confidence is a float32. It is written <<c, side>>: c is the
\* multiple of 1/10000 nearest to it, side is 1, -1 or 0 as the float lies
\* above, below or exactly on c / 10000.

\* 2^n
RECURSIVE Pow2(_)
Pow2(n) == IF n = 0 THEN 1 ELSE 2 * Pow2(n - 1)

\* the least j with c * 2^j >= 10000 (c in 1..9999): c / 10000 lies in
\* [2^-j, 2^(1-j)), so a float32 near it is a multiple of 2^-(23+j)
RECURSIVE BinaryExponent(_)
BinaryExponent(c) == IF c >= One THEN 0 ELSE 1 + BinaryExponent(2 * c)

\* c * 2^i / 10000 as <<integer part modulo `modulus`, remainder>>, from
\* <<q, r>> for i = 0, by doubling
RECURSIVE Scaled(_, _, _, _)
Scaled(q, r, i, modulus) ==
    IF i = 0 THEN <<q, r>>
    ELSE Scaled((2 * q + (2 * r) \div One) % modulus, (2 * r) % One,
                i - 1, modulus)

\* the 24-bit mantissa of the float32 nearest c / 10000 (c in 1..9999),
\* modulo `modulus`, and the side of c / 10000 that float lies on; the
\* remainder is never exactly one half
Mantissa(c, modulus) ==
    LET s == Scaled(0, c, 23 + BinaryExponent(c), modulus)
    IN  IF 2 * s[2] > One THEN <<(s[1] + 1) % modulus, 1>>
        ELSE <<s[1], IF s[2] = 0 THEN 0 ELSE -1>>

\* the float32 cv2.matchTemplate stores for a score nearest c / 10000
Float32(c) ==
    <<c, IF c = 0 \/ c = One THEN 0 ELSE Mantissa(c, 2)[2]>>

\* 1 - result in float32, for the score nearest `score` / 10000: the
\* difference of 1 and the float32 score, rounded to a multiple of 2^-24 (an
\* exact tie to the even multiple)
OneMinus(score) ==
    IF score = 0 \/ score = One THEN <<One - score, 0>>
    ELSE LET j == BinaryExponent(score)
             m == Mantissa(score, Pow2(j))
             half == Pow2(j - 1)
             b == m[1] % half       \* the bits of the score below 2^-24
             a == m[1] \div half
         IN  <<One - score,
               IF 2 * b < half \/ (2 * b = half /\ a % 2 = 0)
               THEN (IF b >= 1 THEN 1 ELSE 0 - m[2])
               ELSE -1>>

\* round(float(confidence), 3) on a float32 confidence: to the nearest
\* 1/1000 of the float's exact value; only a float exactly half way goes to
\* the even neighbour
RoundFloat(f) ==
    LET q == f[1] \div 10
        r == f[1] % 10
    IN  IF r < 5 THEN 10 * q
        ELSE IF r > 5 THEN 10 * (q + 1)
        ELSE IF f[2] > 0 THEN 10 * (q + 1)
        ELSE IF f[2] < 0 THEN 10 * q
        ELSE IF q % 2 = 0 THEN 10 * q ELSE 10 * (q + 1)

\* round(float(np.float32(c / 10000)), 3)
Round3(c) == RoundFloat(Float32(c))

\* np.where(...) on one score: does this position pass the threshold?
Passes(meth, thr, score) ==
    IF meth = "sqdiff_normed"
    THEN score <= One - thr     \* result <= (1 - self.threshold)
    ELSE score >= thr           \* result >= self.threshold

\* confidences = 1 - result[locations]   or   result[locations]
Confidence(meth, score) ==
    IF meth = "sqdiff_normed" THEN OneMinus(score) ELSE Float32(score)

\* the dict appended for the k-th score (row-major) of a result with `cols` columns
MatchDict(k, cols, new_w, new_h, conf, scale) ==
    LET x == (k - 1) % cols
        y == (k - 1) \div cols
    IN  [x |-> x, y |-> y, width |-> new_w, height |-> new_h,
         center_x |-> x + new_w \div 2, center_y |-> y + new_h \div 2,
         confidence |-> RoundFloat(conf), scale |-> scale]

\* the loop over zip(zip(*locations[::-1]), confidences): positions in
\* row-major order, those that pass only
RECURSIVE Candidates(_, _, _, _, _, _, _, _)
Candidates(result, k, cols, new_w, new_h, scale, meth, thr) ==
    IF k > Len(result) THEN <<>>
    ELSE LET rest == Candidates(result, k + 1, cols, new_w, new_h, scale, meth, thr)
         IN  IF Passes(meth, thr, result[k])
             THEN <<MatchDict(k, cols, new_w, new_h,
                              Confidence(meth, result[k]), scale)>> \o rest
             ELSE rest

\* _match_at_scale, given what cv2.matchTemplate returned (row-major scores)
MatchAtScale(shot, tmpl, scale, result, meth, thr) ==
    IF Skipped(shot, tmpl, scale) THEN <<>>
    ELSE Candidates(result, 1, ResultCols(shot, tmpl, scale),
                    NewW(tmpl, scale), NewH(tmpl, scale), scale, meth, thr)

----------------------------------------------------------------------------
(* TemplateMatcher._calculate_iou and _non_max_suppression *)

\* intersection area of two boxes as _calculate_iou computes it; 0 where the
\* code returns 0.0 early
InterArea(box1, box2) ==
    LET inter_x_min == Max(box1.x, box2.x)
        inter_y_min == Max(box1.y, box2.y)
        inter_x_max == Min(box1.x + box1.width, box2.x + box2.width)
        inter_y_max == Min(box1.y + box1.height, box2.y + box2.height)
    IN  IF inter_x_max < inter_x_min \/ inter_y_max < inter_y_min THEN 0
        ELSE (inter_x_max - inter_x_min) * (inter_y_max - inter_y_min)

\* faulty variant of UnionArea: the intersection is not subtracted
UnionAreaNoSubtract(box1, box2) ==
    box1.width * box1.height + box2.width * box2.height

\* union_area = box1_area + box2_area - inter_area
UnionArea(box1, box2) ==
    box1.width * box1.height + box2.width * box2.height - InterArea(box1, box2)

\* _calculate_iou as the fraction <<numerator, denominator>>; 0/1 where the
\* code returns 0.0
CalculateIou(box1, box2) ==
    IF UnionArea(box1, box2) > 0
    THEN <<InterArea(box1, box2), UnionArea(box1, box2)>>
    ELSE <<0, 1>>

\* iou > overlap_threshold
IouExceeds(iou, num, den) == iou[1] * den > num * iou[2]

\* sorted(matches, key=confidence, reverse=True): stable, so equal
\* confidences keep their order
RECURSIVE InsertByConfidence(_, _)
InsertByConfidence(sorted, m) ==
    IF sorted = <<>> THEN <<m>>
    ELSE IF Head(sorted).confidence >= m.confidence
         THEN <<Head(sorted)>> \o InsertByConfidence(Tail(sorted), m)
         ELSE <<m>> \o sorted

RECURSIVE SortByConfidence(_)
SortByConfidence(ms) ==
    IF ms = <<>> THEN <<>>
    ELSE InsertByConfidence(SortByConfidence(SubSeq(ms, 1, Len(ms) - 1)),
                            ms[Len(ms)])

\* the inner loop: does match overlap any kept match?
IsOverlapping(match, kept_matches) ==
    \E i \in 1..Len(kept_matches) :
        IouExceeds(CalculateIou(match, kept_matches[i]), OverlapNum, OverlapDen)

\* the outer loop over the sorted matches
RECURSIVE Suppress(_, _)
Suppress(sorted, kept_matches) ==
    IF sorted = <<>> THEN kept_matches
    ELSE Suppress(Tail(sorted),
                  IF IsOverlapping(Head(sorted), kept_matches)
                  THEN kept_matches
                  ELSE Append(kept_matches, Head(sorted)))

\* faulty variant of NonMaxSuppression: the candidates are not sorted first
NonMaxSuppressionUnsorted(ms) == Suppress(ms, <<>>)

NonMaxSuppression(ms) ==
    IF ms = <<>> THEN <<>> ELSE Suppress(SortByConfidence(ms), <<>>)

----------------------------------------------------------------------------
(* UIDetector._load_image *)

\* the same two attempts as TemplateMatcher._load_image
LoadImageUI(data) ==
    IF data.decode = "raise"
    THEN IF data.path = "raster" THEN data.shape ELSE None
    ELSE IF data.decode = "raster" THEN data.shape ELSE None

----------------------------------------------------------------------------
(* UIDetector._analyze_contour *)

\* A contour as OpenCV describes it: x, y, w, h from cv2.boundingRect,
\* vertices = len(cv2.approxPolyDP(...)), circularity in hundredths.

\* area > self.max_area, with max_area in half pixels
OverCeiling(area, maxa) == 2 * area > maxa

\* the two rejections of _analyze_contour: area, then aspect ratio w / h
\* outside [0.1, 10] (0 when h is 0)
ContourRejected(c, mina, maxa) ==
    \/ c.w * c.h < mina
    \/ OverCeiling(c.w * c.h, maxa)
    \/ IF c.h > 0 THEN 10 * c.w < c.h \/ c.w > 10 * c.h ELSE TRUE

\* the decision table: 4 vertices, else round, else fewer than 10 vertices
ElementType(c) ==
    IF c.vertices = 4 THEN "rectangle"
    ELSE IF c.circularity > 70 THEN "circle"
    ELSE IF c.vertices < 10 THEN "polygon"
    ELSE "unknown"

\* confidence, in hundredths
ShapeConfidence(c) ==
    IF c.vertices = 4 THEN 80
    ELSE IF c.circularity > 70 THEN 90
    ELSE IF c.vertices < 10 THEN 60
    ELSE 50

\* the dict _analyze_contour returns for a contour it does not reject
AnalyzeContour(c) ==
    [x |-> c.x, y |-> c.y, width |-> c.w, height |-> c.h,
     center_x |-> c.x + c.w \div 2, center_y |-> c.y + c.h \div 2,
     area |-> c.w * c.h, type |-> ElementType(c),
     confidence |-> ShapeConfidence(c), vertices |-> c.vertices]

\* lines 66-70: the elements of the contours that are not rejected, in order
RECURSIVE AnalyzeContours(_, _, _)
AnalyzeContours(cs, mina, maxa) ==
    IF cs = <<>> THEN <<>>
    ELSE (IF ContourRejected(Head(cs), mina, maxa) THEN <<>>
          ELSE <<AnalyzeContour(Head(cs))>>)
            \o AnalyzeContours(Tail(cs), mina, maxa)

----------------------------------------------------------------------------
(* UIDetector._detect_color_regions and _get_color_name_from_hue *)

\* A colour region as OpenCV describes it: x, y, w, h from cv2.boundingRect
\* of a mask contour, and the means of saturation, value and hue over the box.

\* sat_threshold = 50, val_threshold = 40
SatThreshold == 50
ValThreshold == 40

\* the rejections of the loop: area below max(200, min_area * 0.5) or over the
\* ceiling, aspect ratio outside [0.05, 15], an empty region, means too low
RegionRejected(r, mina, maxa) ==
    \/ 2 * (r.w * r.h) < Max(400, mina)
    \/ OverCeiling(r.w * r.h, maxa)
    \/ IF r.h > 0 THEN 20 * r.w < r.h \/ r.w > 15 * r.h ELSE TRUE
    \/ r.w * r.h = 0
    \/ r.mean_saturation < SatThreshold
    \/ r.mean_value < ValThreshold

\* _get_color_name_from_hue
ColorName(hue) ==
    IF hue < 10 \/ hue > 170 THEN "red"
    ELSE IF hue < 20 THEN "orange"
    ELSE IF hue < 30 THEN "yellow"
    ELSE IF hue < 75 THEN "green"
    ELSE IF hue < 100 THEN "cyan"
    ELSE IF hue < 130 THEN "blue"
    ELSE IF hue < 150 THEN "purple"
    ELSE "pink"

\* round(min(0.95, 0.7 + sat / 255 * 0.15 + val / 255 * 0.1), 2), in
\* hundredths: (17850 + 15 sat + 10 val) / 255 to the nearest integer
ColorConfidence(sat, val) ==
    Min(95, (2 * (17850 + 15 * sat + 10 * val) + 255) \div 510)

\* the dict appended for a region that is not rejected
ColorElement(r) ==
    [x |-> r.x, y |-> r.y, width |-> r.w, height |-> r.h,
     center_x |-> r.x + r.w \div 2, center_y |-> r.y + r.h \div 2,
     area |-> r.w * r.h, type |-> "color_button_" \o ColorName(r.mean_hue),
     confidence |-> ColorConfidence(r.mean_saturation, r.mean_value),
     vertices |-> 4]

RECURSIVE DetectColorRegions(_, _, _)
DetectColorRegions(rs, mina, maxa) ==
    IF rs = <<>> THEN <<>>
    ELSE (IF RegionRejected(Head(rs), mina, maxa) THEN <<>>
          ELSE <<ColorElement(Head(rs))>>)
            \o DetectColorRegions(Tail(rs), mina, maxa)

----------------------------------------------------------------------------
(* Merging: lines 75-111 of detect_ui_elements *)

\* x_overlap * y_overlap
OverlapArea(a, b) ==
    Max(0, Min(a.x + a.width, b.x + b.width) - Max(a.x, b.x))
        * Max(0, Min(a.y + a.height, b.y + b.height) - Max(a.y, b.y))

\* overlap_area > min_area * 0.5 (exact in floating point)
OverHalf(overlap, smaller) == 2 * overlap > smaller

\* index of the first edge element the colour element overlaps by more than
\* half of the smaller area, 0 if there is none
RECURSIVE FirstOverlapped(_, _, _)
FirstOverlapped(color_elem, edges, i) ==
    IF i > Len(edges) THEN 0
    ELSE IF OverHalf(OverlapArea(color_elem, edges[i]),
                     Min(color_elem.area, edges[i].area))
         THEN i
         ELSE FirstOverlapped(color_elem, edges, i + 1)

\* list.remove(e): drops the first element equal to e
RECURSIVE ListRemove(_, _)
ListRemove(seq, e) ==
    IF seq = <<>> THEN <<>>
    ELSE IF Head(seq) = e THEN Tail(seq)
         ELSE <<Head(seq)>> \o ListRemove(Tail(seq), e)

\* faulty variant of RemainingEdges: no break, so a colour element drops every edge
\* element it overlaps by more than half
RECURSIVE DropAllOverlapped(_, _)
DropAllOverlapped(color_elem, edges) ==
    IF edges = <<>> THEN <<>>
    ELSE (IF OverHalf(OverlapArea(color_elem, Head(edges)),
                      Min(color_elem.area, Head(edges).area))
          THEN <<>> ELSE <<Head(edges)>>)
            \o DropAllOverlapped(color_elem, Tail(edges))

RECURSIVE RemainingEdgesDropAll(_, _)
RemainingEdgesDropAll(colors, edges) ==
    IF colors = <<>> THEN edges
    ELSE RemainingEdgesDropAll(Tail(colors),
                               DropAllOverlapped(Head(colors), edges))

\* the loop over color_elements (lines 80-99): the edge elements left over
RECURSIVE RemainingEdges(_, _)
RemainingEdges(colors, edges) ==
    IF colors = <<>> THEN edges
    ELSE LET i == FirstOverlapped(Head(colors), edges, 1)
         IN  RemainingEdges(Tail(colors),
                            IF i = 0 THEN edges ELSE ListRemove(edges, edges[i]))

\* lines 77-102: every colour element, then the edge elements left over
PreferColor(shapes, colors) == colors \o RemainingEdges(colors, shapes)

\* elem1 is inside elem2 and significantly smaller (area < 0.9 of elem2's;
\* the product by 0.9 is exact on integers in floating point)
IsNestedIn(elem1, elem2) ==
    /\ elem1.x >= elem2.x
    /\ elem1.y >= elem2.y
    /\ elem1.x + elem1.width <= elem2.x + elem2.width
    /\ elem1.y + elem1.height <= elem2.y + elem2.height
    /\ 10 * elem1.area < 9 * elem2.area

\* _remove_nested_elements: position i stays unless nested in some other position
RECURSIVE KeepNotNested(_, _)
KeepNotNested(es, i) ==
    IF i > Len(es) THEN <<>>
    ELSE (IF \E j \in 1..Len(es) : j # i /\ IsNestedIn(es[i], es[j])
          THEN <<>> ELSE <<es[i]>>)
            \o KeepNotNested(es, i + 1)

\* faulty variant of RemoveNestedElements: an element is tested against the elements
\* kept so far, not against the whole list
RECURSIVE KeepNotNestedInKept(_, _)
KeepNotNestedInKept(es, filtered) ==
    IF es = <<>> THEN filtered
    ELSE KeepNotNestedInKept(
            Tail(es),
            IF \E j \in 1..Len(filtered) : IsNestedIn(Head(es), filtered[j])
            THEN filtered ELSE Append(filtered, Head(es)))

RemoveNestedAgainstKept(es) == KeepNotNestedInKept(es, <<>>)

RemoveNestedElements(es) == KeepNotNested(es, 1)

\* the largest power of two not above n (n >= 1)
RECURSIVE Pow2Floor(_)
Pow2Floor(n) == IF n < 2 THEN 1 ELSE 2 * Pow2Floor(n \div 2)

\* overlap_area > min_area * 0.7 as the double product decides it: 0.7 is
\* stored a little below 7/10, so where 7/10 of the area is an integer the
\* product may round to just under it, and an overlap of exactly 70% then
\* counts as more than 70%
OverSeventy(overlap, smaller) ==
    IF 10 * overlap # 7 * smaller THEN 10 * overlap > 7 * smaller
    ELSE overlap > 0 /\ 4 * smaller > 10 * Pow2Floor(overlap)

\* faulty variant of IsDuplicate: only the element kept last is tested
IsDuplicateOfLast(elem1, filtered) ==
    /\ filtered # <<>>
    /\ OverSeventy(OverlapArea(elem1, filtered[Len(filtered)]),
                   Min(elem1.area, filtered[Len(filtered)].area))

\* the inner loop of _remove_duplicate_elements
IsDuplicate(elem1, filtered) ==
    \E i \in 1..Len(filtered) :
        OverSeventy(OverlapArea(elem1, filtered[i]),
                    Min(elem1.area, filtered[i].area))

RECURSIVE KeepNotDuplicate(_, _)
KeepNotDuplicate(es, filtered) ==
    IF es = <<>> THEN filtered
    ELSE KeepNotDuplicate(Tail(es),
                          IF IsDuplicate(Head(es), filtered) THEN filtered
                          ELSE Append(filtered, Head(es)))

RemoveDuplicateElements(es) == KeepNotDuplicate(es, <<>>)

\* elements.sort(key=area, reverse=True): stable
RECURSIVE InsertByArea(_, _)
InsertByArea(sorted, e) ==
    IF sorted = <<>> THEN <<e>>
    ELSE IF Head(sorted).area >= e.area
         THEN <<Head(sorted)>> \o InsertByArea(Tail(sorted), e)
         ELSE <<e>> \o sorted

RECURSIVE SortByArea(_)
SortByArea(es) ==
    IF es = <<>> THEN <<>>
    ELSE InsertByArea(SortByArea(SubSeq(es, 1, Len(es) - 1)), es[Len(es)])

\* elements[:100]
MaxResults == 100
Limit(es) == SubSeq(es, 1, Min(Len(es), MaxResults))

\* lines 75-111 as one function of the two detectors' outputs
Merge(shapes, colors) ==
    Limit(SortByArea(RemoveDuplicateElements(RemoveNestedElements(
        PreferColor(shapes, colors)))))

----------------------------------------------------------------------------
(* Bounds of the template-matcher model *)

\* rasters as <<height, width>> (numpy's shape[:2]); small enough to enumerate
\* every score map, large enough for boxes that overlap a little, a lot, not at all
\* <<screenshot, template>> pairs
ImagePairs ==
    {<<<<1, 4>>, <<1, 2>>>>, <<<<2, 3>>, <<1, 2>>>>, <<<<1, 2>>, <<1, 2>>>>,
     <<<<2, 2>>, <<2, 2>>>>}
ScreenShapes == {pr[1] : pr \in ImagePairs}
TemplateShapes == {pr[2] : pr \in ImagePairs}

\* thresholds tried; 0.7004 is one that is not a multiple of 1/1000
Thresholds == {5000, 7000, 7004}

\* confidences a position may score; 0.6996 and 0.7004 both round to 0.700
Confs == {6996, 7004, 9000}

\* at most this many positions, over all scales, score anything but the
\* background (no match at all)
MaxHits == 3

\* the raw score that means `no match at all` under a method
Background(meth) == IF meth = "sqdiff_normed" THEN One ELSE 0

\* raw scores cv2.matchTemplate may return: for the squared difference a raw
\* score s stands for the confidence 1 - s
RawScores(meth) ==
    {Background(meth)}
        \cup (IF meth = "sqdiff_normed" THEN {One - c : c \in Confs} ELSE Confs)

\* how many positions of the score maps recorded so far are hits
RECURSIVE CountHits(_, _)
CountHits(result, meth) ==
    IF result = <<>> THEN 0
    ELSE (IF Head(result) = Background(meth) THEN 0 ELSE 1)
            + CountHits(Tail(result), meth)

RECURSIVE CountAllHits(_, _)
CountAllHits(rs, meth) ==
    IF rs = <<>> THEN 0
    ELSE CountHits(Head(rs), meth) + CountAllHits(Tail(rs), meth)

\* the score maps cv2.matchTemplate may return for n positions, with at most
\* `budget` hits
ScoreMaps(n, meth, budget) ==
    {r \in [1..n -> RawScores(meth)] : CountHits(r, meth) <= budget}

\* inputs of find_matches: what reading the string does, and the raster it
\* holds if a read yields one
Payloads(shapes) == [decode : Outcomes, path : Outcomes, shape : shapes]

\* a payload that decodes, and one that is corrupt and no path either
GoodPayloads(shapes) ==
    {p \in Payloads(shapes) : p.decode = "raster" /\ p.path = "none"}
CorruptPayloads(shapes) ==
    {p \in Payloads(shapes) : p.decode = "raise" /\ p.path = "none"}

----------------------------------------------------------------------------
(* TemplateMatcher.find_matches, step by step *)

\* faulty variant of LoadFailed: the template is not tested
LoadFailedScreenshotOnly(shot, tmpl) == shot = None

\* if screenshot is None or template is None
LoadFailed(shot, tmpl) == shot = None \/ tmpl = None

\* lines 52-59: load both images; return [] if either is missing (an
\* exception leaving the loader would leave find_matches too)
FindMatchesLoad ==
    /\ tm_pc = "call"
    /\ screenshot' = LoadImage(screenshot_data)
    /\ template' = LoadImage(template_data)
    /\ IF screenshot' = Raised \/ template' = Raised
       THEN tm_pc' = "raised" /\ tm_returned' = tm_returned
       ELSE IF LoadFailed(screenshot', template')
       THEN tm_pc' = "done" /\ tm_returned' = <<>>
       ELSE tm_pc' = "match" /\ tm_returned' = tm_returned
    /\ UNCHANGED <<threshold, method, screenshot_data, template_data,
                   multi_scale, scale_i, results, matches>>
    /\ UNCHANGED uiVars

\* lines 61-68: one turn of the loop over scales (the single call at 1.0 when
\* multi_scale is off): cv2.matchTemplate returns a score map, _match_at_scale
\* turns it into candidates, matches.extend adds them
MatchAtScaleStep ==
    /\ tm_pc = "match"
    /\ LET scale == ScalesFor(multi_scale)[scale_i]
           n == IF Skipped(screenshot, template, scale) THEN 0
                ELSE ResultRows(screenshot, template, scale)
                        * ResultCols(screenshot, template, scale)
       IN  \E result \in ScoreMaps(n, method, MaxHits - CountAllHits(results, method)) :
              /\ results' = Append(results, result)
              /\ matches' = matches \o MatchAtScale(screenshot, template, scale,
                                                   result, method, threshold)
    /\ IF scale_i < Len(ScalesFor(multi_scale))
       THEN scale_i' = scale_i + 1 /\ tm_pc' = "match"
       ELSE scale_i' = scale_i /\ tm_pc' = "nms"
    /\ UNCHANGED <<threshold, method, screenshot_data, template_data,
                   multi_scale, screenshot, template, tm_returned>>
    /\ UNCHANGED uiVars

\* line 71: matches = self._non_max_suppression(matches)
NonMaxSuppressionStep ==
    /\ tm_pc = "nms"
    /\ matches' = NonMaxSuppression(matches)
    /\ tm_pc' = "sort"
    /\ UNCHANGED <<threshold, method, screenshot_data, template_data,
                   multi_scale, screenshot, template, scale_i, results,
                   tm_returned>>
    /\ UNCHANGED uiVars

\* lines 74-76: matches.sort(confidence, reverse=True); return matches
SortAndReturn ==
    /\ tm_pc = "sort"
    /\ tm_returned' = SortByConfidence(matches)
    /\ matches' = SortByConfidence(matches)
    /\ tm_pc' = "done"
    /\ UNCHANGED <<threshold, method, screenshot_data, template_data,
                   multi_scale, screenshot, template, scale_i, results>>
    /\ UNCHANGED uiVars

\* find_matches from the score maps alone: what the call returns at
\* threshold thr when cv2.matchTemplate returns rs[i] at the i-th scale
RECURSIVE AllCandidates(_, _, _, _, _, _, _)
AllCandidates(shot, tmpl, scales, rs, i, meth, thr) ==
    IF i > Len(rs) THEN <<>>
    ELSE MatchAtScale(shot, tmpl, scales[i], rs[i], meth, thr)
            \o AllCandidates(shot, tmpl, scales, rs, i + 1, meth, thr)

FindMatches(shot, tmpl, ms, rs, meth, thr) ==
    SortByConfidence(NonMaxSuppression(
        AllCandidates(shot, tmpl, ScalesFor(ms), rs, 1, meth, thr)))


----------------------------------------------------------------------------
(* Bounds of the detector model *)

\* rasters the detector is shown, as <<height, width>>
UIShapes == {<<40, 100>>, <<20, 40>>}

\* min_area arguments of __init__: the default, and a larger floor
CtorMinAreas == {400, 1000}

\* max_area arguments of __init__: None, or a number of pixels
CtorMaxAreas == {None, <<900>>}

\* at most this many contours from the edge image, and from the colour mask
MaxContours == 3
MaxRegions == 2

Contour(x, y, w, h, vertices, circularity) ==
    [x |-> x, y |-> y, w |-> w, h |-> h, vertices |-> vertices,
     circularity |-> circularity]

\* contours cv2.findContours may return on the edges of an image of a shape:
\* boxes that nest, overlap by two thirds, nearly coincide, and boxes the
\* filters reject (too large, too small, too flat)
ContourPool(shape) ==
    IF shape = <<40, 100>>
    THEN {Contour(0, 0, 20, 30, 4, 50), Contour(0, 10, 20, 30, 8, 80),
          Contour(0, 0, 20, 40, 4, 50), Contour(0, 0, 30, 40, 6, 50),
          Contour(0, 0, 20, 32, 12, 10), Contour(0, 0, 60, 40, 4, 50),
          Contour(0, 0, 10, 10, 4, 50), Contour(0, 0, 100, 8, 4, 50)}
    ELSE {Contour(0, 0, 30, 20, 4, 50), Contour(0, 0, 20, 20, 8, 80)}

Region(x, y, w, h, sat, val, hue) ==
    [x |-> x, y |-> y, w |-> w, h |-> h, mean_saturation |-> sat,
     mean_value |-> val, mean_hue |-> hue]

\* regions the colour mask may yield on an image of a shape
RegionPool(shape) ==
    IF shape = <<40, 100>>
    THEN {Region(0, 0, 20, 30, 200, 200, 60), Region(0, 10, 20, 30, 100, 100, 110),
          Region(0, 0, 20, 10, 200, 200, 5), Region(0, 0, 30, 40, 255, 255, 140),
          Region(0, 0, 100, 8, 200, 200, 25), Region(0, 0, 20, 30, 40, 200, 60)}
    ELSE {Region(0, 0, 30, 20, 200, 200, 60), Region(0, 0, 20, 10, 60, 60, 160)}

\* sequences of at most n elements of S
SeqsUpTo(S, n) == UNION {[1..k -> S] : k \in 0..n}

----------------------------------------------------------------------------
(* UIDetector.detect_ui_elements, step by step *)

\* a caller invokes detect_ui_elements(image_data) on the detector
DetectCall ==
    /\ ui_pc \in {"idle", "done"}
    /\ image_data' \in GoodPayloads(UIShapes) \cup CorruptPayloads({<<20, 40>>})
    /\ img' = None
    /\ edge_elements' = <<>>
    /\ color_elements' = <<>>
    /\ elements' = <<>>
    /\ ui_returned' = <<>>
    /\ ui_pc' = "call"
    /\ UNCHANGED <<min_area, max_area, ctor_max_area>>
    /\ UNCHANGED tmVars

\* lines 37-45: load the image; return [] if there is none; set self.max_area
\* to half the image's pixel count if it is None
DetectLoad ==
    /\ ui_pc = "call"
    /\ img' = LoadImageUI(image_data)
    /\ IF img' = Raised
       THEN /\ ui_pc' = "raised"
            /\ ui_returned' = ui_returned
            /\ max_area' = max_area
       ELSE IF img' = None
       THEN /\ ui_pc' = "done"
            /\ ui_returned' = <<>>
            /\ max_area' = max_area
       ELSE /\ ui_pc' = "shapes"
            /\ ui_returned' = ui_returned
            /\ max_area' = IF max_area = None
                           THEN <<img'[1] * img'[2]>>
                           ELSE max_area
    /\ UNCHANGED <<min_area, ctor_max_area, image_data, edge_elements,
                   color_elements, elements>>
    /\ UNCHANGED tmVars

\* lines 47-70: OpenCV finds contours on the edges; _analyze_contour filters
\* and classifies them
DetectShapes ==
    /\ ui_pc = "shapes"
    /\ \E cs \in SeqsUpTo(ContourPool(img), MaxContours) :
          elements' = AnalyzeContours(cs, min_area, max_area[1])
    /\ ui_pc' = "colors"
    /\ UNCHANGED <<min_area, max_area, ctor_max_area, image_data, img,
                   edge_elements, color_elements, ui_returned>>
    /\ UNCHANGED tmVars

\* line 73: color_elements = self._detect_color_regions(img)
DetectColors ==
    /\ ui_pc = "colors"
    /\ \E rs \in SeqsUpTo(RegionPool(img), MaxRegions) :
          color_elements' = DetectColorRegions(rs, min_area, max_area[1])
    /\ ui_pc' = "prefer"
    /\ UNCHANGED <<min_area, max_area, ctor_max_area, image_data, img,
                   edge_elements, elements, ui_returned>>
    /\ UNCHANGED tmVars

\* lines 75-102: colour elements first, each dropping the first edge element
\* it overlaps by more than half; then the edge elements left over
PreferStep ==
    /\ ui_pc = "prefer"
    /\ edge_elements' = RemainingEdges(color_elements, elements)
    /\ elements' = PreferColor(elements, color_elements)
    /\ ui_pc' = "nested"
    /\ UNCHANGED <<min_area, max_area, ctor_max_area, image_data, img,
                   color_elements, ui_returned>>
    /\ UNCHANGED tmVars

\* line 105
RemoveNestedStep ==
    /\ ui_pc = "nested"
    /\ elements' = RemoveNestedElements(elements)
    /\ ui_pc' = "dups"
    /\ UNCHANGED <<min_area, max_area, ctor_max_area, image_data, img,
                   edge_elements, color_elements, ui_returned>>
    /\ UNCHANGED tmVars

\* line 106
RemoveDuplicatesStep ==
    /\ ui_pc = "dups"
    /\ elements' = RemoveDuplicateElements(elements)
    /\ ui_pc' = "sort"
    /\ UNCHANGED <<min_area, max_area, ctor_max_area, image_data, img,
                   edge_elements, color_elements, ui_returned>>
    /\ UNCHANGED tmVars

\* lines 108-111: sort by area, larger first; return the first 100
SortAndLimit ==
    /\ ui_pc = "sort"
    /\ elements' = SortByArea(elements)
    /\ ui_returned' = Limit(SortByArea(elements))
    /\ ui_pc' = "done"
    /\ UNCHANGED <<min_area, max_area, ctor_max_area, image_data, img,
                   edge_elements, color_elements>>
    /\ UNCHANGED tmVars

\* the template matcher's variables in a process that builds no matcher
TMIdle ==
    /\ threshold = 7000
    /\ method = "ccoeff_normed"
    /\ screenshot_data = None
    /\ template_data = None
    /\ multi_scale = TRUE
    /\ screenshot = None
    /\ template = None
    /\ scale_i = 1
    /\ results = <<>>
    /\ matches = <<>>
    /\ tm_pc = "none"
    /\ tm_returned = <<>>

\* UIDetector(min_area, max_area) built; no call yet
InitUI ==
    /\ min_area \in CtorMinAreas
    /\ ctor_max_area \in CtorMaxAreas
    /\ max_area = IF ctor_max_area = None THEN None ELSE <<2 * ctor_max_area[1]>>
    /\ image_data = None
    /\ img = None
    /\ edge_elements = <<>>
    /\ color_elements = <<>>
    /\ elements = <<>>
    /\ ui_pc = "idle"
    /\ ui_returned = <<>>
    /\ TMIdle

NextUI ==
    \/ DetectCall
    \/ DetectLoad
    \/ DetectShapes
    \/ DetectColors
    \/ PreferStep
    \/ RemoveNestedStep
    \/ RemoveDuplicatesStep
    \/ SortAndLimit

SpecUI == InitUI /\ [][NextUI]_vars

----------------------------------------------------------------------------
(* The template matcher alone *)

\* the detector's variables in a process that builds no detector
UIIdle ==
    /\ min_area = 400
    /\ max_area = None
    /\ ctor_max_area = None
    /\ image_data = None
    /\ img = None
    /\ edge_elements = <<>>
    /\ color_elements = <<>>
    /\ elements = <<>>
    /\ ui_pc = "none"
    /\ ui_returned = <<>>

\* TemplateMatcher(threshold, method) built, find_matches about to run
InitMatch ==
    /\ threshold \in Thresholds
    /\ method \in Methods
    /\ screenshot_data \in GoodPayloads(ScreenShapes) \cup CorruptPayloads({<<1, 4>>})
    /\ template_data \in GoodPayloads(TemplateShapes) \cup CorruptPayloads({<<1, 2>>})
    /\ <<screenshot_data.shape, template_data.shape>> \in ImagePairs
    /\ multi_scale \in BOOLEAN
    /\ screenshot = None
    /\ template = None
    /\ scale_i = 1
    /\ results = <<>>
    /\ matches = <<>>
    /\ tm_pc = "call"
    /\ tm_returned = <<>>
    /\ UIIdle

NextMatch ==
    \/ FindMatchesLoad
    \/ MatchAtScaleStep
    \/ NonMaxSuppressionStep
    \/ SortAndReturn

SpecMatch == InitMatch /\ [][NextMatch]_vars

----------------------------------------------------------------------------
(* The entry of both calls: every outcome of the two reads *)

InitLoad ==
    /\ threshold = 7000
    /\ method = "ccoeff_normed"
    /\ screenshot_data \in Payloads({<<1, 4>>})
    /\ template_data \in Payloads({<<1, 2>>})
    /\ multi_scale = TRUE
    /\ screenshot = None
    /\ template = None
    /\ scale_i = 1
    /\ results = <<>>
    /\ matches = <<>>
    /\ tm_pc = "call"
    /\ tm_returned = <<>>
    /\ min_area = 400
    /\ ctor_max_area = None
    /\ max_area = None
    /\ image_data \in Payloads({<<20, 40>>})
    /\ img = None
    /\ edge_elements = <<>>
    /\ color_elements = <<>>
    /\ elements = <<>>
    /\ ui_pc = "call"
    /\ ui_returned = <<>>

NextLoad ==
    \/ FindMatchesLoad
    \/ DetectLoad

SpecLoad == InitLoad /\ [][NextLoad]_vars

----------------------------------------------------------------------------
(* The whole package: a process runs the matcher or the detector *)

Init == InitMatch \/ InitUI

Next ==
    \/ FindMatchesLoad
    \/ MatchAtScaleStep
    \/ NonMaxSuppressionStep
    \/ SortAndReturn
    \/ DetectCall
    \/ DetectLoad
    \/ DetectShapes
    \/ DetectColors
    \/ PreferStep
    \/ RemoveNestedStep
    \/ RemoveDuplicatesStep
    \/ SortAndLimit

Spec == Init /\ [][Next]_vars

----------------------------------------------------------------------------
(* Properties of find_matches *)

\* the pixels a box covers
\* the elements of a list
Range(seq) == {seq[i] : i \in 1..Len(seq)}

\* the pixels of a box
Pixels(b) == (b.x .. b.x + b.width - 1) \X (b.y .. b.y + b.height - 1)

\* intersection-over-union of two boxes exceeds num/den, counted on pixels
PixelIouAbove(a, b, num, den) ==
    Cardinality(Pixels(a) \cap Pixels(b)) * den
        > num * Cardinality(Pixels(a) \cup Pixels(b))

\* the candidates that cleared the threshold in the run so far, all scales
CandidatesSoFar ==
    AllCandidates(screenshot, template, ScalesFor(multi_scale), results, 1,
                  method, threshold)

\* C1: the list find_matches returns holds no two distinct MatchCandidates
\* whose boxes have an intersection-over-union greater than 0.3.
C1_NoOverlapInResult ==
    tm_pc = "done" =>
        \A i, j \in 1..Len(tm_returned) :
            i # j => ~PixelIouAbove(tm_returned[i], tm_returned[j], 3, 10)

\* C1 witness: a finished call that kept two candidates and suppressed one
C1_Witness ==
    /\ tm_pc = "done"
    /\ Len(tm_returned) >= 2
    /\ Len(CandidatesSoFar) > Len(tm_returned)

\* C2 (as claimed): every returned MatchCandidate reports a confidence (after
\* the inversion and the rounding to 3 decimals) that is at least the
\* threshold, and its box lies inside the screenshot.
C2_ReportedConfidenceAndBounds ==
    tm_pc = "done" =>
        \A i \in 1..Len(tm_returned) :
            LET m == tm_returned[i]
            IN  /\ m.confidence >= threshold
                /\ m.x >= 0
                /\ m.y >= 0
                /\ m.x + m.width <= screenshot[2]
                /\ m.y + m.height <= screenshot[1]

\* C3 (as claimed): for the same screenshot, template, method and multi_scale,
\* a call with a higher threshold never returns more MatchCandidates than the
\* call that just finished.
C3_CountMonotonicInThreshold ==
    (tm_pc = "done" /\ ~LoadFailed(screenshot, template)) =>
        \A t2 \in Thresholds :
            t2 >= threshold =>
                Len(FindMatches(screenshot, template, multi_scale, results,
                                method, t2)) <= Len(tm_returned)

\* the returned candidate r accounts for the loss of candidate c: their boxes
\* have an intersection-over-union above 0.3, counted on pixels, and r's
\* reported confidence is not below c's
SuppressedBy(c, r) ==
    /\ PixelIouAbove(c, r, 3, 10)
    /\ r.confidence >= c.confidence

\* C12: every candidate that cleared the threshold and is absent from the
\* returned list has an intersection-over-union above 0.3 with some returned
\* candidate whose reported confidence is not below its own; a non-empty
\* candidate list never yields an empty result.
C12_DiscardedOnlyForBetter ==
    (tm_pc = "done" /\ ~LoadFailed(screenshot, template)) =>
        /\ \A c \in Range(CandidatesSoFar) :
              c \notin Range(tm_returned) =>
                  \E r \in Range(tm_returned) : SuppressedBy(c, r)
        /\ CandidatesSoFar # <<>> => tm_returned # <<>>

\* C12 witness: a finished call that discarded a candidate and returned
\* candidates of two different reported confidences
C12_Witness ==
    /\ tm_pc = "done"
    /\ \E c \in Range(CandidatesSoFar) : c \notin Range(tm_returned)
    /\ \E r1, r2 \in Range(tm_returned) : r1.confidence > r2.confidence

----------------------------------------------------------------------------
(* Properties of detect_ui_elements *)

ColorNames ==
    {"red", "orange", "yellow", "green", "cyan", "blue", "purple", "pink"}

\* an element of the colour detector: its type is color_button_<name>
IsColorElement(e) == e.type \in {"color_button_" \o n : n \in ColorNames}

RECURSIVE SelectColor(_, _)
SelectColor(es, want) ==
    IF es = <<>> THEN <<>>
    ELSE (IF IsColorElement(Head(es)) = want THEN <<Head(es)>> ELSE <<>>)
            \o SelectColor(Tail(es), want)


\* the list the nesting removal was given in the call that just finished
BeforeNesting == color_elements \o edge_elements

\* a is fully inside b and has less than 90% of b's area, counted on pixels
PixelNested(a, b) ==
    /\ Pixels(a) \subseteq Pixels(b)
    /\ 10 * Cardinality(Pixels(a)) < 9 * Cardinality(Pixels(b))

\* C4 (as claimed): merging the returned list again, split into its colour
\* elements and its shape elements, returns the same set of elements.
C4_MergeIdempotent ==
    (ui_pc = "done" /\ img # None) =>
        Range(Merge(SelectColor(ui_returned, FALSE),
                    SelectColor(ui_returned, TRUE)))
            = Range(ui_returned)

\* the list holds no two distinct elements A, B with A's pixels all in B's
\* box and A's area less than 90% of B's area
NoNestedPair(es) ==
    \A i, j \in 1..Len(es) : i # j => ~PixelNested(es[i], es[j])

\* C5: the returned list holds no two distinct elements A, B with A's box
\* fully inside B's box and A's area less than 90% of B's area; the list that
\* nesting removal hands to duplicate removal ("for any input lists, including
\* chains") already holds no such pair, and the later steps add none.
C5_NoNestedInResult ==
    /\ ui_pc \in {"dups", "sort"} => NoNestedPair(elements)
    /\ ui_pc = "done" => NoNestedPair(ui_returned)

\* C5 witness: a finished call whose merged list held a chain A inside B
\* inside C, so that B, which contains A, was itself removed
C5_Witness ==
    /\ ui_pc = "done"
    /\ ui_returned # <<>>
    /\ \E i, j, k \in 1..Len(BeforeNesting) :
          /\ PixelNested(BeforeNesting[i], BeforeNesting[j])
          /\ PixelNested(BeforeNesting[j], BeforeNesting[k])

\* C6: the returned list holds no two distinct elements whose boxes have an
\* intersection-over-union above 0.7.
C6_NoDuplicateInResult ==
    ui_pc = "done" =>
        \A i, j \in 1..Len(ui_returned) :
            i # j => ~PixelIouAbove(ui_returned[i], ui_returned[j], 7, 10)

\* C6 witness: a finished call in which duplicate removal dropped an element
\* that overlapped a kept one by more than 70% of the smaller area although
\* their intersection-over-union was not above 0.7
C6_Witness ==
    /\ ui_pc = "done"
    /\ \E e \in Range(RemoveNestedElements(BeforeNesting)) :
          /\ e \notin Range(ui_returned)
          /\ \E k \in Range(ui_returned) :
                /\ 10 * OverlapArea(e, k) > 7 * Min(e.area, k.area)
                /\ ~PixelIouAbove(e, k, 7, 10)

\* C8 (as claimed): with no max_area given to __init__, the ceiling a call
\* applies is half the pixel count of that call's image.
C8_CeilingIsHalfOfThisImage ==
    (ui_pc \in {"shapes", "colors"} /\ ctor_max_area = None) =>
        max_area = <<img[1] * img[2]>>

\* the overlap of two boxes exceeds half of the smaller area, counted on pixels
PixelOverHalf(a, b) ==
    2 * Cardinality(Pixels(a) \cap Pixels(b))
        > Min(Cardinality(Pixels(a)), Cardinality(Pixels(b)))

SetMin(S) == CHOOSE m \in S : \A n \in S : m <= n

\* the positions of the shape list that the colour elements, taken in order,
\* remove: each the first position not yet removed that it overlaps by more
\* than half
RECURSIVE ClaimedRemoved(_, _, _)
ClaimedRemoved(colors, shapes, removed) ==
    IF colors = <<>> THEN removed
    ELSE LET hit == {i \in (1..Len(shapes)) \ removed :
                        PixelOverHalf(Head(colors), shapes[i])}
         IN  ClaimedRemoved(Tail(colors), shapes,
                            IF hit = {} THEN removed
                            ELSE removed \cup {SetMin(hit)})

RECURSIVE KeepPositions(_, _, _)
KeepPositions(shapes, removed, i) ==
    IF i > Len(shapes) THEN <<>>
    ELSE (IF i \in removed THEN <<>> ELSE <<shapes[i]>>)
            \o KeepPositions(shapes, removed, i + 1)

\* C10: the preference step keeps every colour element, in order, at the
\* front; each colour element in turn removes at most one shape element, the
\* first not yet removed that it overlaps by more than half of the smaller
\* area; the shape elements not removed follow in their original order.
C10_PreferenceStep ==
    [][(ui_pc = "prefer" /\ ui_pc' = "nested") =>
          elements' = color_elements
                        \o KeepPositions(elements,
                                         ClaimedRemoved(color_elements, elements, {}),
                                         1)]_vars

\* C10 witness: after the preference step a shape element is left that a
\* colour element overlaps by more than half: that colour element removed
\* one shape element, the first, and no more
C10_Witness ==
    /\ ui_pc = "nested"
    /\ Len(elements) = Len(color_elements) + Len(edge_elements)
    /\ \E c \in Range(color_elements) : \E e \in Range(edge_elements) :
          PixelOverHalf(c, e)

\* C11 (as claimed): after the preference step no shape element carried
\* forward overlaps a colour element by more than 50% of the smaller of the
\* two areas.
C11_CarriedEdgesClearOfColor ==
    ui_pc = "nested" =>
        \A e \in Range(edge_elements) : \A c \in Range(color_elements) :
            ~PixelOverHalf(c, e)

----------------------------------------------------------------------------
(* Properties of the loaders *)

\* neither read of the input yields a raster
Unreadable(data) == data.decode # "raster" /\ data.path # "raster"

\* C7: whatever the two reads do, when no image is obtained for the
\* screenshot or the template (find_matches) or for the image
\* (detect_ui_elements), the call has returned normally, with an empty list.
C7_NoImageGivesEmptyList ==
    /\ (tm_pc # "call" /\ (Unreadable(screenshot_data) \/ Unreadable(template_data)
                             \/ screenshot = None \/ template = None))
          => (tm_pc = "done" /\ tm_returned = <<>>)
    /\ (ui_pc # "call" /\ (Unreadable(image_data) \/ img = None))
          => (ui_pc = "done" /\ ui_returned = <<>>)

\* C7 witness: both reads of the screenshot raised, the template was fine,
\* the image of the detector decoded to nothing; both calls returned
C7_Witness ==
    /\ tm_pc = "done"
    /\ screenshot_data.decode = "raise" /\ screenshot_data.path = "raise"
    /\ template_data.decode = "raster"
    /\ tm_returned = <<>>
    /\ ui_pc = "done"
    /\ image_data.decode = "none"
    /\ ui_returned = <<>>

\* what reading the input as a path gives
PathRead(data) == IF data.path = "raster" THEN data.shape ELSE None

\* C9 (as claimed): whenever the payload decode does not produce an image,
\* because it raises or because it yields no raster, the image loaded is what
\* the path read gives.
C9_PathReadAfterAnyDecodeFailure ==
    /\ tm_pc # "call" =>
          /\ screenshot_data.decode # "raster" => screenshot = PathRead(screenshot_data)
          /\ template_data.decode # "raster" => template = PathRead(template_data)
    /\ ui_pc # "call" =>
          (image_data.decode # "raster" => img = PathRead(image_data))

============================================================================
